---- MODULE Spec2Model ----
(***************************************************************************)
(* A model of the getopt(3)-like command line parser of src/getopt.rs:     *)
(* parse_optstring, GetOpt::new, GetOpt::find_opt_spec, GetOpt::handle_arg,*)
(* GetOpt::handle_option and the Iterator implementation GetOpt::next.     *)
(*                                                                         *)
(* A string is a sequence of one-character strings.  A Rust Option is a    *)
(* sequence of length 0 (None) or 1 (Some(x)).  idx is 0-based as in the   *)
(* source, so the source's chars[idx] is chars[idx + 1] here.              *)
(*                                                                         *)
(* It also models parse_offset of src/bin/od.rs, which the specification   *)
(* SpecOffset applies to offset strings.                                   *)
(***************************************************************************)
EXTENDS Integers, Sequences, FiniteSets, TLC

VARIABLES
    pc,         \* "start" before GetOpt::new, "ready" after, "panicked" if it panicked
    optstring,  \* the optstring argument of GetOpt::new
    opts_done,  \* GetOpt.opts_done
    opt_specs,  \* GetOpt.opt_specs
    args,       \* GetOpt.args: the tokens the iterator has not yet produced
    chars,      \* GetOpt.chars
    idx,        \* GetOpt.idx
    ret,        \* what the last call of next returned (<<>> is None)
    out,        \* history: the items yielded so far, in order
    log,        \* history: the tokens taken from args so far, each with the call site
                \* that took it, whether scanning was active, and Len(out) before that pull
    offstr,     \* od: the offstr argument of parse_offset
    offset,     \* od: Option of the result of parse_offset(offstr) (<<>> before the call)
    counts,     \* wc: the Counts that io::copy writes to
    reader,     \* wc: the bytes of the input not yet copied
    written     \* wc: history, the buffers given to Counts::write so far

vars == <<pc, optstring, opts_done, opt_specs, args, chars, idx, ret, out, log, offstr, offset,
          counts, reader, written>>

----------------------------------------------------------------------------
(* Bounds of the model *)

\* the largest size of the command line given to the parser: the sum of the
\* sizes of its tokens (see Size)
MaxSize == 5
\* the longest optstring given to GetOpt::new in SpecCompile
MaxSpecLen == 4
\* the longest offset string given to parse_offset in SpecOffset
MaxOffLen == 4

\* the greatest length of the input of wc
MaxBytes == 4

----------------------------------------------------------------------------
(* Characters and strings *)

Hyphen == "-"
Colon == ":"

\* char::is_ascii_alphanumeric
AsciiAlphanumeric ==
    {"a","b","c","d","e","f","g","h","i","j","k","l","m",
     "n","o","p","q","r","s","t","u","v","w","x","y","z",
     "A","B","C","D","E","F","G","H","I","J","K","L","M",
     "N","O","P","Q","R","S","T","U","V","W","X","Y","Z",
     "0","1","2","3","4","5","6","7","8","9"}

is_ascii_alphanumeric(c) == c \in AsciiAlphanumeric

\* all strings over the characters cs of length at most n
StringsUpTo(cs, n) == UNION {[1..k -> cs] : k \in 0..n}

\* str::starts_with(char)
starts_with(s, c) == Len(s) > 0 /\ s[1] = c

----------------------------------------------------------------------------
(* The values of the source's types *)

\* OptSpec::new
OptSpec(opt, has_arg) == [opt |-> opt, has_arg |-> has_arg]

\* Ok(Arg::Opt(c))
Opt(c) == [kind |-> "Opt", opt |-> c, val |-> <<>>]
\* Ok(Arg::OptWithArg(c, v))
OptWithArg(c, v) == [kind |-> "OptWithArg", opt |-> c, val |-> v]
\* Ok(Arg::Arg(v))
Arg(v) == [kind |-> "Arg", opt |-> "", val |-> v]
\* Err(GetOptErr::MissingArg(c))
MissingArg(c) == [kind |-> "MissingArg", opt |-> c, val |-> <<>>]
\* Err(GetOptErr::MissingOpt)
MissingOpt == [kind |-> "MissingOpt", opt |-> "", val |-> <<>>]
\* Err(GetOptErr::UnknownOpt(c))
UnknownOpt(c) == [kind |-> "UnknownOpt", opt |-> c, val |-> <<>>]

----------------------------------------------------------------------------
(* parse_optstring *)

\* the loop body of parse_optstring with a colon that has no letter before it skipped
parse_optstring_step_skips_colon(st, c) ==
    IF st.panic THEN st
    ELSE IF c = Colon THEN
        IF st.last # <<>>
        THEN [st EXCEPT !.opt_specs = Append(st.opt_specs, OptSpec(st.last[1], TRUE))]
        ELSE st
    ELSE IF is_ascii_alphanumeric(c) THEN
        [st EXCEPT !.opt_specs = IF st.last # <<>>
                                 THEN Append(st.opt_specs, OptSpec(st.last[1], FALSE))
                                 ELSE st.opt_specs,
                   !.last = <<c>>]
    ELSE [st EXCEPT !.panic = TRUE]

\* the loop body of parse_optstring with a letter pushed as value-taking when
\* the next letter starts
parse_optstring_step_pushes_has_arg(st, c) ==
    IF st.panic THEN st
    ELSE IF c = Colon THEN
        IF st.last # <<>>
        THEN [st EXCEPT !.opt_specs = Append(st.opt_specs, OptSpec(st.last[1], TRUE))]
        ELSE [st EXCEPT !.panic = TRUE]
    ELSE IF is_ascii_alphanumeric(c) THEN
        [st EXCEPT !.opt_specs = IF st.last # <<>>
                                 THEN Append(st.opt_specs, OptSpec(st.last[1], TRUE))
                                 ELSE st.opt_specs,
                   !.last = <<c>>]
    ELSE [st EXCEPT !.panic = TRUE]

\* one iteration of the loop of parse_optstring on the character c;
\* st = [opt_specs, last, panic]
parse_optstring_step(st, c) ==
    IF st.panic THEN st
    ELSE IF c = Colon THEN
        IF st.last # <<>>
        THEN [st EXCEPT !.opt_specs = Append(st.opt_specs, OptSpec(st.last[1], TRUE))]
        ELSE [st EXCEPT !.panic = TRUE]
    ELSE IF is_ascii_alphanumeric(c) THEN
        [st EXCEPT !.opt_specs = IF st.last # <<>>
                                 THEN Append(st.opt_specs, OptSpec(st.last[1], FALSE))
                                 ELSE st.opt_specs,
                   !.last = <<c>>]
    ELSE [st EXCEPT !.panic = TRUE]

RECURSIVE parse_optstring_loop(_, _)
parse_optstring_loop(st, s) ==
    IF s = <<>> THEN st
    ELSE parse_optstring_loop(parse_optstring_step(st, Head(s)), Tail(s))

\* parse_optstring: [panic |-> whether it panicked, opt_specs |-> the table]
parse_optstring(s) ==
    LET st == parse_optstring_loop([opt_specs |-> <<>>, last |-> <<>>, panic |-> FALSE], s)
    IN IF st.panic THEN [panic |-> TRUE, opt_specs |-> <<>>]
       ELSE [panic |-> FALSE,
             opt_specs |-> IF st.last # <<>>
                           THEN Append(st.opt_specs, OptSpec(st.last[1], FALSE))
                           ELSE st.opt_specs]

----------------------------------------------------------------------------
(* GetOpt *)

\* find_opt_spec returning the last matching specification of the table
find_opt_spec_last(specs, opt) ==
    LET I == {i \in 1..Len(specs) : specs[i].opt = opt}
    IN IF I = {} THEN <<>>
       ELSE <<specs[CHOOSE i \in I : \A j \in I : i >= j]>>

\* GetOpt::find_opt_spec: the first specification of the table matching opt
find_opt_spec(specs, opt) ==
    LET I == {i \in 1..Len(specs) : specs[i].opt = opt}
    IN IF I = {} THEN <<>>
       ELSE <<specs[CHOOSE i \in I : \A j \in I : i <= j]>>

\* args.next() running ahead: the token after the one returned is dropped
take_runs_ahead(self, site) ==
    [self EXCEPT !.args = IF Len(self.args) >= 2 THEN Tail(Tail(self.args)) ELSE <<>>,
                 !.log = Append(self.log, [tok |-> Head(self.args), site |-> site,
                                           scan |-> ~self.opts_done])]

\* args.next() on a source that still has a token: the parser after the call.
\* The history log records the token, the call site that took it ("arg": handed
\* to handle_arg, "value": taken by handle_option) and whether option scanning
\* was still active (opts_done false) when it was taken.
take(self, site) ==
    [self EXCEPT !.args = Tail(self.args),
                 !.log = Append(self.log, [tok |-> Head(self.args), site |-> site,
                                           scan |-> ~self.opts_done])]

\* handle_option with the cluster ended once an option has taken its value
handle_option_ends_cluster(self) ==
    LET opt == self.chars[self.idx + 1]
        s1 == [self EXCEPT !.idx = self.idx + 1]
        opt_spec == find_opt_spec(s1.opt_specs, opt)
    IN IF opt_spec # <<>> THEN
           IF opt_spec[1].has_arg THEN
               IF s1.args # <<>>
               THEN [self |-> [take(s1, "value") EXCEPT !.chars = <<>>, !.idx = 0],
                     ret |-> OptWithArg(opt, Head(s1.args))]
               ELSE [self |-> s1, ret |-> MissingArg(opt)]
           ELSE [self |-> s1, ret |-> Opt(opt)]
       ELSE [self |-> s1, ret |-> UnknownOpt(opt)]

\* handle_option with the cluster ended once an option has missed its value
handle_option_missing_ends_cluster(self) ==
    LET opt == self.chars[self.idx + 1]
        s1 == [self EXCEPT !.idx = self.idx + 1]
        opt_spec == find_opt_spec(s1.opt_specs, opt)
    IN IF opt_spec # <<>> THEN
           IF opt_spec[1].has_arg THEN
               IF s1.args # <<>>
               THEN [self |-> take(s1, "value"), ret |-> OptWithArg(opt, Head(s1.args))]
               ELSE [self |-> [s1 EXCEPT !.idx = Len(s1.chars)], ret |-> MissingArg(opt)]
           ELSE [self |-> s1, ret |-> Opt(opt)]
       ELSE [self |-> s1, ret |-> UnknownOpt(opt)]

\* handle_option with the cluster ended by a letter that is not in the table
handle_option_unknown_ends_cluster(self) ==
    LET opt == self.chars[self.idx + 1]
        s1 == [self EXCEPT !.idx = self.idx + 1]
        opt_spec == find_opt_spec(s1.opt_specs, opt)
    IN IF opt_spec # <<>> THEN
           IF opt_spec[1].has_arg THEN
               IF s1.args # <<>>
               THEN [self |-> take(s1, "value"), ret |-> OptWithArg(opt, Head(s1.args))]
               ELSE [self |-> s1, ret |-> MissingArg(opt)]
           ELSE [self |-> s1, ret |-> Opt(opt)]
       ELSE [self |-> [s1 EXCEPT !.idx = Len(s1.chars)], ret |-> UnknownOpt(opt)]

\* handle_option taking the rest of the cluster, when there is one, as the
\* value of a value-taking option, as getopt(3) does
handle_option_value_from_cluster(self) ==
    LET opt == self.chars[self.idx + 1]
        s1 == [self EXCEPT !.idx = self.idx + 1]
        opt_spec == find_opt_spec(s1.opt_specs, opt)
    IN IF opt_spec # <<>> THEN
           IF opt_spec[1].has_arg THEN
               IF s1.idx < Len(s1.chars)
               THEN [self |-> [s1 EXCEPT !.idx = Len(s1.chars)],
                     ret |-> OptWithArg(opt, SubSeq(s1.chars, s1.idx + 1, Len(s1.chars)))]
               ELSE IF s1.args # <<>>
               THEN [self |-> take(s1, "value"), ret |-> OptWithArg(opt, Head(s1.args))]
               ELSE [self |-> s1, ret |-> MissingArg(opt)]
           ELSE [self |-> s1, ret |-> Opt(opt)]
       ELSE [self |-> s1, ret |-> UnknownOpt(opt)]

\* handle_option leaving the index on a letter that optstring does not declare
handle_option_stays_on_unknown(self) ==
    LET opt == self.chars[self.idx + 1]
        s1 == [self EXCEPT !.idx = self.idx + 1]
        opt_spec == find_opt_spec(s1.opt_specs, opt)
    IN IF opt_spec # <<>> THEN
           IF opt_spec[1].has_arg THEN
               IF s1.args # <<>>
               THEN [self |-> take(s1, "value"), ret |-> OptWithArg(opt, Head(s1.args))]
               ELSE [self |-> s1, ret |-> MissingArg(opt)]
           ELSE [self |-> s1, ret |-> Opt(opt)]
       ELSE [self |-> [self EXCEPT !.chars = self.chars, !.idx = IF self.idx > 0 THEN self.idx ELSE 1],
             ret |-> UnknownOpt(opt)]

\* handle_option stepping over the letter after the one it reads
handle_option_skips_letter(self) ==
    LET opt == self.chars[self.idx + 1]
        s1 == [self EXCEPT !.idx = self.idx + 2]
        opt_spec == find_opt_spec(s1.opt_specs, opt)
    IN IF opt_spec # <<>> THEN
           IF opt_spec[1].has_arg THEN
               IF s1.args # <<>>
               THEN [self |-> take(s1, "value"), ret |-> OptWithArg(opt, Head(s1.args))]
               ELSE [self |-> s1, ret |-> MissingArg(opt)]
           ELSE [self |-> s1, ret |-> Opt(opt)]
       ELSE [self |-> s1, ret |-> UnknownOpt(opt)]

\* GetOpt::handle_option: [self |-> the parser after the call, ret |-> the result]
handle_option(self) ==
    LET opt == self.chars[self.idx + 1]
        s1 == [self EXCEPT !.idx = self.idx + 1]
        opt_spec == find_opt_spec(s1.opt_specs, opt)
    IN IF opt_spec # <<>> THEN
           IF opt_spec[1].has_arg THEN
               IF s1.args # <<>>
               THEN [self |-> take(s1, "value"), ret |-> OptWithArg(opt, Head(s1.args))]
               ELSE [self |-> s1, ret |-> MissingArg(opt)]
           ELSE [self |-> s1, ret |-> Opt(opt)]
       ELSE [self |-> s1, ret |-> UnknownOpt(opt)]

\* handle_arg with option scanning left active after the first operand
RECURSIVE handle_arg_keeps_scanning(_, _)
handle_arg_keeps_scanning(self, arg) ==
    IF self.opts_done THEN [self |-> self, ret |-> <<Arg(arg)>>]
    ELSE IF starts_with(arg, Hyphen) THEN
        LET s1 == [self EXCEPT !.chars = arg, !.idx = 1]
        IN IF Len(s1.chars) > 1 THEN
               IF Len(s1.chars) = 2 /\ s1.chars[2] = Hyphen THEN
                   LET s2 == [s1 EXCEPT !.opts_done = TRUE, !.idx = 0]
                   IN IF s2.args # <<>>
                      THEN handle_arg_keeps_scanning(take(s2, "arg"), Head(s2.args))
                      ELSE [self |-> s2, ret |-> <<>>]
               ELSE LET r == handle_option(s1)
                    IN [self |-> r.self, ret |-> <<r.ret>>]
           ELSE [self |-> s1, ret |-> <<MissingOpt>>]
    ELSE [self |-> self, ret |-> <<Arg(arg)>>]

\* handle_arg with "--" discarded but option scanning left active
RECURSIVE handle_arg_terminator_ignored(_, _)
handle_arg_terminator_ignored(self, arg) ==
    IF self.opts_done THEN [self |-> self, ret |-> <<Arg(arg)>>]
    ELSE IF starts_with(arg, Hyphen) THEN
        LET s1 == [self EXCEPT !.chars = arg, !.idx = 1]
        IN IF Len(s1.chars) > 1 THEN
               IF Len(s1.chars) = 2 /\ s1.chars[2] = Hyphen THEN
                   LET s2 == [s1 EXCEPT !.idx = 0]
                   IN IF s2.args # <<>>
                      THEN handle_arg_terminator_ignored(take(s2, "arg"), Head(s2.args))
                      ELSE [self |-> s2, ret |-> <<>>]
               ELSE LET r == handle_option(s1)
                    IN [self |-> r.self, ret |-> <<r.ret>>]
           ELSE [self |-> s1, ret |-> <<MissingOpt>>]
    ELSE [self |-> [self EXCEPT !.opts_done = TRUE], ret |-> <<Arg(arg)>>]

\* handle_arg returning None at "--" without going on to the token after it
handle_arg_terminator_stops(self, arg) ==
    IF self.opts_done THEN [self |-> self, ret |-> <<Arg(arg)>>]
    ELSE IF starts_with(arg, Hyphen) THEN
        LET s1 == [self EXCEPT !.chars = arg, !.idx = 1]
        IN IF Len(s1.chars) > 1 THEN
               IF Len(s1.chars) = 2 /\ s1.chars[2] = Hyphen THEN
                   [self |-> [s1 EXCEPT !.opts_done = TRUE, !.idx = 0], ret |-> <<>>]
               ELSE LET r == handle_option(s1)
                    IN [self |-> r.self, ret |-> <<r.ret>>]
           ELSE [self |-> s1, ret |-> <<MissingOpt>>]
    ELSE [self |-> [self EXCEPT !.opts_done = TRUE], ret |-> <<Arg(arg)>>]

\* handle_arg yielding a single hyphen as an operand, which ends scanning
RECURSIVE handle_arg_hyphen_is_operand(_, _)
handle_arg_hyphen_is_operand(self, arg) ==
    IF self.opts_done THEN [self |-> self, ret |-> <<Arg(arg)>>]
    ELSE IF starts_with(arg, Hyphen) /\ Len(arg) > 1 THEN
        LET s1 == [self EXCEPT !.chars = arg, !.idx = 1]
        IN IF Len(s1.chars) = 2 /\ s1.chars[2] = Hyphen THEN
               LET s2 == [s1 EXCEPT !.opts_done = TRUE, !.idx = 0]
               IN IF s2.args # <<>>
                  THEN handle_arg_hyphen_is_operand(take(s2, "arg"), Head(s2.args))
                  ELSE [self |-> s2, ret |-> <<>>]
           ELSE LET r == handle_option(s1)
                IN [self |-> r.self, ret |-> <<r.ret>>]
    ELSE [self |-> [self EXCEPT !.opts_done = TRUE], ret |-> <<Arg(arg)>>]

\* handle_arg ending option scanning on every token that starts with "--"
RECURSIVE handle_arg_long_terminator(_, _)
handle_arg_long_terminator(self, arg) ==
    IF self.opts_done THEN [self |-> self, ret |-> <<Arg(arg)>>]
    ELSE IF starts_with(arg, Hyphen) THEN
        LET s1 == [self EXCEPT !.chars = arg, !.idx = 1]
        IN IF Len(s1.chars) > 1 THEN
               IF s1.chars[2] = Hyphen THEN
                   LET s2 == [s1 EXCEPT !.opts_done = TRUE, !.idx = 0]
                   IN IF s2.args # <<>>
                      THEN handle_arg_long_terminator(take(s2, "arg"), Head(s2.args))
                      ELSE [self |-> s2, ret |-> <<>>]
               ELSE LET r == handle_option(s1)
                    IN [self |-> r.self, ret |-> <<r.ret>>]
           ELSE [self |-> s1, ret |-> <<MissingOpt>>]
    ELSE [self |-> [self EXCEPT !.opts_done = TRUE], ret |-> <<Arg(arg)>>]

\* GetOpt::handle_arg: [self |-> the parser after the call, ret |-> Option of the result]
RECURSIVE handle_arg(_, _)
handle_arg(self, arg) ==
    IF self.opts_done THEN [self |-> self, ret |-> <<Arg(arg)>>]
    ELSE IF starts_with(arg, Hyphen) THEN
        LET s1 == [self EXCEPT !.chars = arg, !.idx = 1]
        IN IF Len(s1.chars) > 1 THEN
               IF Len(s1.chars) = 2 /\ s1.chars[2] = Hyphen THEN
                   LET s2 == [s1 EXCEPT !.opts_done = TRUE, !.idx = 0]
                   IN IF s2.args # <<>>
                      THEN handle_arg(take(s2, "arg"), Head(s2.args))
                      ELSE [self |-> s2, ret |-> <<>>]
               ELSE LET r == handle_option(s1)
                    IN [self |-> r.self, ret |-> <<r.ret>>]
           ELSE [self |-> s1, ret |-> <<MissingOpt>>]
    ELSE [self |-> [self EXCEPT !.opts_done = TRUE], ret |-> <<Arg(arg)>>]

\* next with the last letter of a cluster never decoded
next_drops_last_letter(self) ==
    IF self.chars # <<>> /\ self.idx > 0 /\ self.idx < Len(self.chars) - 1
    THEN LET r == handle_option(self)
         IN [self |-> r.self, ret |-> <<r.ret>>]
    ELSE IF self.args # <<>>
         THEN handle_arg(take(self, "arg"), Head(self.args))
         ELSE [self |-> self, ret |-> <<>>]

\* next starting the parser afresh when it finds the source exhausted
next_end_resets(self) ==
    IF self.chars # <<>> /\ self.idx > 0 /\ self.idx < Len(self.chars)
    THEN LET r == handle_option(self)
         IN [self |-> r.self, ret |-> <<r.ret>>]
    ELSE IF self.args # <<>>
         THEN handle_arg(take(self, "arg"), Head(self.args))
         ELSE [self |-> [self EXCEPT !.opts_done = FALSE, !.chars = <<>>, !.idx = 0],
               ret |-> <<>>]

\* Iterator::next for GetOpt: [self |-> the parser after the call, ret |-> Option of the result]
next(self) ==
    IF self.chars # <<>> /\ self.idx > 0 /\ self.idx < Len(self.chars)
    THEN LET r == handle_option(self)
         IN [self |-> r.self, ret |-> <<r.ret>>]
    ELSE IF self.args # <<>>
         THEN handle_arg(take(self, "arg"), Head(self.args))
         ELSE [self |-> self, ret |-> <<>>]

----------------------------------------------------------------------------
(* The inputs *)

\* the characters of the tokens that start with a hyphen
ClusterChars == {Hyphen, "a", "b"}

\* the tokens that start with a hyphen
HyphenTokens == {t \in StringsUpTo(ClusterChars, MaxSize) : starts_with(t, Hyphen)}

Ant == <<"a", "n", "t">>
Bat == <<"b", "a", "t">>

\* the tokens that do not start with a hyphen: the empty token and two words
PlainTokens == {<<>>, Ant, Bat}

Tokens == HyphenTokens \cup PlainTokens

\* the size of a token: the parser reads every character of a token that
\* starts with a hyphen, and of any other token only whether it starts with one
Size(t) == IF starts_with(t, Hyphen) THEN Len(t) ELSE 1

\* the command lines of size at most n
RECURSIVE CmdLines(_)
CmdLines(n) ==
    {<<>>} \cup UNION {{<<t>> \o r : r \in CmdLines(n - Size(t))} :
                          t \in {u \in Tokens : Size(u) <= n}}

\* the option letters of the optstrings given to the parser, in order
OptLetters == <<"a", "b">>

\* the optstrings of the first k option letters, each followed by a colon or not
RECURSIVE LetterSpecs(_)
LetterSpecs(k) ==
    IF k = 0 THEN {<<>>}
    ELSE {s \o t : s \in LetterSpecs(k - 1),
                   t \in {<<OptLetters[k]>>, <<OptLetters[k], Colon>>}}

\* the invalid optstrings of test_getopt_invalid_optspec1 and test_getopt_invalid_optspec2
InvalidTestSpecs == {<<"!">>, <<Colon>>}

\* the optstrings given to the parser
ParserOptStrings == UNION {LetterSpecs(k) : k \in 0..Len(OptLetters)} \cup InvalidTestSpecs

\* the characters of the optstrings given to GetOpt::new in SpecCompile
SpecChars == {"a", "b", Colon, "!"}

\* the command lines given to GetOpt::new in SpecCompile: none, that of
\* test_getopt_invalid_optspec1 and that of test_getopt_grouped_opts_with_args
CompileCmdLines == {<<>>, <<<<Hyphen, "b">>>>, <<<<Hyphen, "a", "b">>, Ant, Bat>>}

----------------------------------------------------------------------------
(* The state machine *)

\* the state before GetOpt::new(optstring, args) is called
InitWith(optstrings, argseqs) ==
    /\ pc = "start"
    /\ optstring \in optstrings
    /\ args \in argseqs
    /\ opts_done = FALSE
    /\ opt_specs = <<>>
    /\ chars = <<>>
    /\ idx = 0
    /\ ret = <<>>
    /\ out = <<>>
    /\ log = <<>>
    /\ offstr = <<>>
    /\ offset = <<>>
    /\ counts = <<>>
    /\ reader = <<>>
    /\ written = <<>>

Init == InitWith(ParserOptStrings, CmdLines(MaxSize))

InitCompile == InitWith(StringsUpTo(SpecChars, MaxSpecLen), CompileCmdLines)

\* GetOpt::new building a parser whose option scanning is already over
New_options_done ==
    /\ pc = "start"
    /\ LET p == parse_optstring(optstring)
       IN IF p.panic
          THEN /\ pc' = "panicked"
               /\ UNCHANGED <<opt_specs, opts_done>>
          ELSE /\ pc' = "ready"
               /\ opt_specs' = p.opt_specs
               /\ opts_done' = TRUE
    /\ UNCHANGED <<optstring, args, chars, idx, ret, out, log, offstr, offset, counts, reader, written>>

\* GetOpt::new(optstring, args)
New ==
    /\ pc = "start"
    /\ LET p == parse_optstring(optstring)
       IN IF p.panic
          THEN /\ pc' = "panicked"
               /\ UNCHANGED opt_specs
          ELSE /\ pc' = "ready"
               /\ opt_specs' = p.opt_specs
    /\ UNCHANGED <<optstring, opts_done, args, chars, idx, ret, out, log, offstr, offset, counts, reader, written>>

\* the parser as a record
Self == [opts_done |-> opts_done, opt_specs |-> opt_specs, args |-> args,
         chars |-> chars, idx |-> idx, log |-> <<>>]

\* one call of next on the parser
Pull ==
    /\ pc = "ready"
    /\ LET r == next(Self)
       IN /\ opts_done' = r.self.opts_done
          /\ args' = r.self.args
          /\ chars' = r.self.chars
          /\ idx' = r.self.idx
          /\ ret' = r.ret
          /\ out' = out \o r.ret
          /\ log' = log \o [i \in 1..Len(r.self.log) |->
                               [tok |-> r.self.log[i].tok, site |-> r.self.log[i].site,
                                scan |-> r.self.log[i].scan, at |-> Len(out)]]
    /\ UNCHANGED <<pc, optstring, opt_specs, offstr, offset, counts, reader, written>>

Next == New \/ Pull

Spec == Init /\ [][Next]_vars

SpecCompile == InitCompile /\ [][Next]_vars

\* the parser driven by a consumer that pulls until the end, as the for loops
\* over the parser in the utilities do
InitLoop == InitWith(ParserOptStrings, CmdLines(MaxSize - 2))

SpecLoop == InitLoop /\ [][Next]_vars /\ WF_vars(Next)

----------------------------------------------------------------------------
(* od: parse_offset *)

\* the decimal digits, in order of their values
Digits == <<"0", "1", "2", "3", "4", "5", "6", "7", "8", "9">>

\* char::to_digit(radix) for a radix of at most 10: Option of the value of c
to_digit(c, radix) ==
    LET I == {i \in 0..(radix - 1) : Digits[i + 1] = c}
    IN IF I = {} THEN <<>> ELSE <<CHOOSE i \in I : TRUE>>

\* Ok(n) and Err(e) of Result<u64, ParseIntError>
OkOffset(n) == [ok |-> TRUE, val |-> n, err |-> ""]
ErrOffset(e) == [ok |-> FALSE, val |-> 0, err |-> e]

\* the digit loop of u64::from_str_radix: the value of the digits ds after acc,
\* or -1 at a character that is not a digit of the radix
RECURSIVE from_digits(_, _, _)
from_digits(acc, ds, radix) ==
    IF ds = <<>> THEN acc
    ELSE IF to_digit(Head(ds), radix) = <<>> THEN -1
    ELSE from_digits(acc * radix + to_digit(Head(ds), radix)[1], Tail(ds), radix)

\* u64::from_str_radix for a radix of at most 10.  The strings of the model are
\* short enough for every value, and every value times 512, to stay far below
\* 2^64, so that PosOverflow and the overflow of n * mult do not occur.
from_str_radix(s, radix) ==
    IF s = <<>> THEN ErrOffset("Empty")
    ELSE LET ds == IF s[1] = "+" THEN Tail(s) ELSE s
             n == from_digits(0, ds, radix)
         IN IF ds = <<>> \/ n < 0 THEN ErrOffset("InvalidDigit") ELSE OkOffset(n)

\* the prefix s[0..n] of s
Prefix(s, n) == SubSeq(s, 1, n)

\* parse_offset with the '.' of a "d." offset not selecting the decimal radix
parse_offset_dot_octal(s) ==
    LET n == Len(s)
        sr == IF n = 0 THEN <<Prefix(s, 0), 8, 1>>
              ELSE IF s[n] = "b" THEN
                  IF n = 1 THEN <<Prefix(s, 0), 8, 512>>
                  ELSE IF s[n - 1] = "." THEN <<Prefix(s, n - 2), 10, 512>>
                  ELSE <<Prefix(s, n - 1), 8, 512>>
              ELSE IF s[n] = "." THEN <<Prefix(s, n - 1), 8, 1>>
              ELSE <<s, 8, 1>>
        res == from_str_radix(sr[1], sr[2])
    IN IF res.ok THEN OkOffset(res.val * sr[3]) ELSE res

\* parse_offset
parse_offset(s) ==
    LET n == Len(s)
        \* <<the digits, the radix, mult>>
        sr == IF n = 0 THEN <<Prefix(s, 0), 8, 1>>
              ELSE IF s[n] = "b" THEN
                  IF n = 1 THEN <<Prefix(s, 0), 8, 512>>
                  ELSE IF s[n - 1] = "." THEN <<Prefix(s, n - 2), 10, 512>>
                  ELSE <<Prefix(s, n - 1), 8, 512>>
              ELSE IF s[n] = "." THEN <<Prefix(s, n - 1), 10, 1>>
              ELSE <<s, 8, 1>>
        res == from_str_radix(sr[1], sr[2])
    IN IF res.ok THEN OkOffset(res.val * sr[3]) ELSE res

\* the characters of the offset strings
OffsetChars == {"0", "1", "7", "8", ".", "b", "+"}

\* the state before parse_offset(offstr) is called
InitOffset ==
    /\ pc = "od"
    /\ offstr \in StringsUpTo(OffsetChars, MaxOffLen)
    /\ offset = <<>>
    /\ optstring = <<>>
    /\ args = <<>>
    /\ opts_done = FALSE
    /\ opt_specs = <<>>
    /\ chars = <<>>
    /\ idx = 0
    /\ ret = <<>>
    /\ out = <<>>
    /\ log = <<>>
    /\ counts = <<>>
    /\ reader = <<>>
    /\ written = <<>>

\* the call parse_offset(offstr)
ParseOffset ==
    /\ pc = "od"
    /\ offset = <<>>
    /\ offset' = <<parse_offset(offstr)>>
    /\ UNCHANGED <<pc, optstring, opts_done, opt_specs, args, chars, idx, ret, out, log, offstr,
                 counts, reader, written>>

NextOffset == ParseOffset

SpecOffset == InitOffset /\ [][NextOffset]_vars

----------------------------------------------------------------------------
(* wc: Counts *)

\* ASCII codes of the characters that write considers whitespace
CR == 13
HT == 9
LF == 10
SP == 32
VT == 11

\* Counts::new: the fields that write reads and assigns
Counts_new == [chars |-> 0, words |-> 0, lines |-> 0, in_word |-> FALSE]

\* the body of the loop of Counts::write for the byte c
write_byte(self, c) ==
    IF c = CR \/ c = HT \/ c = LF \/ c = SP \/ c = VT THEN
        LET s1 == IF self.in_word THEN [self EXCEPT !.in_word = FALSE] ELSE self
        IN IF c = LF THEN [s1 EXCEPT !.lines = s1.lines + 1] ELSE s1
    ELSE IF ~self.in_word THEN [self EXCEPT !.in_word = TRUE, !.words = self.words + 1]
    ELSE self

\* the loop of Counts::write over buf
RECURSIVE write_loop(_, _)
write_loop(self, buf) ==
    IF buf = <<>> THEN self ELSE write_loop(write_byte(self, Head(buf)), Tail(buf))

\* Counts::write starting every call outside a word
write_forgets_in_word(self, buf) ==
    LET s1 == write_loop([self EXCEPT !.in_word = FALSE], buf)
    IN [self |-> [s1 EXCEPT !.chars = s1.chars + Len(buf)], ret |-> Len(buf)]

\* Counts::write: [self |-> the Counts after the call, ret |-> the n of Ok(n)].
\* The counts stay far below usize::MAX.
write(self, buf) ==
    LET s1 == write_loop(self, buf)
    IN [self |-> [s1 EXCEPT !.chars = s1.chars + Len(buf)], ret |-> Len(buf)]

\* the bytes of the input: the five whitespace bytes, form feed and a letter
WcBytes == {CR, HT, LF, SP, VT, 12, 97}

\* wc before io::copy: the Counts is new and the whole input is to be copied
InitWc ==
    /\ pc = "wc"
    /\ counts = Counts_new
    /\ reader \in StringsUpTo(WcBytes, MaxBytes)
    /\ written = <<>>
    /\ offstr = <<>>
    /\ offset = <<>>
    /\ optstring = <<>>
    /\ args = <<>>
    /\ opts_done = FALSE
    /\ opt_specs = <<>>
    /\ chars = <<>>
    /\ idx = 0
    /\ ret = <<>>
    /\ out = <<>>
    /\ log = <<>>

\* one turn of io::copy: a read of any n >= 1 of the bytes left, given to write
Write ==
    /\ pc = "wc"
    /\ \E n \in 1..Len(reader) :
          LET buf == SubSeq(reader, 1, n)
          IN /\ counts' = write(counts, buf).self
             /\ reader' = SubSeq(reader, n + 1, Len(reader))
             /\ written' = Append(written, buf)
    /\ UNCHANGED <<pc, optstring, opts_done, opt_specs, args, chars, idx, ret, out, log,
                   offstr, offset>>

NextWc == Write

SpecWc == InitWc /\ [][NextWc]_vars

----------------------------------------------------------------------------
(* Vocabulary of the properties *)

DashDash == <<Hyphen, Hyphen>>

\* the whole command line: the tokens taken so far followed by those still in args
Source == [k \in 1..Len(log) |-> log[k].tok] \o args

\* the letter c is declared in optstring and followed by a colon
TakesValue(c) == \E i \in 1..(Len(optstring) - 1) : optstring[i] = c /\ optstring[i + 1] = Colon

\* the letter c is declared in optstring and not followed by a colon
IsFlag(c) == \E i \in 1..Len(optstring) :
                 optstring[i] = c /\ (i = Len(optstring) \/ optstring[i + 1] # Colon)

\* the letter c is not declared in optstring
IsUnknown(c) == \A i \in 1..Len(optstring) : optstring[i] # c

\* a token that handle_arg decodes as a cluster when scanning is active
IsClusterToken(t) == starts_with(t, Hyphen) /\ Len(t) > 1 /\ t # DashDash

\* next would continue the current cluster
InCluster == chars # <<>> /\ idx > 0 /\ idx < Len(chars)

\* the last pull yielded an item of the kind k
LastWas(k) == pc = "ready" /\ ret # <<>> /\ ret[1].kind = k

\* the last pull returned None on the exhausted source
Ended == pc = "ready" /\ ret = <<>> /\ args = <<>> /\ ~InCluster

----------------------------------------------------------------------------
(* C1 *)

\* some pull took a token without a leading hyphen while scanning was active
\* and yielded it as Arg
OperandYielded ==
    \E k \in 1..Len(log) :
        /\ log[k].site = "arg" /\ log[k].scan
        /\ ~starts_with(log[k].tok, Hyphen)
        /\ Len(out) > log[k].at
        /\ out[log[k].at + 1] = Arg(log[k].tok)

\* C1: once a pull has yielded Arg for a token without a leading hyphen taken
\* while scanning was active, every later pull on a non-empty source takes
\* exactly the next token and yields it as Arg with that token as its value,
\* whatever the token is.
C1_PositionalAfterOperand ==
    [][(OperandYielded /\ args # <<>>) =>
          (/\ args' = Tail(args)
           /\ ret' = <<Arg(Head(args))>>
           /\ out' = Append(out, Arg(Head(args))))]_vars

\* an operand ended scanning (no "--" did) and later "--" and a hyphen token
\* were yielded as Arg
C1_Witness ==
    /\ OperandYielded
    /\ \A k \in 1..Len(log) : ~(log[k].scan /\ log[k].tok = DashDash)
    /\ \E i \in 1..Len(out) : out[i] = Arg(DashDash)
    /\ \E i \in 1..Len(out) : out[i].kind = "Arg" /\ IsClusterToken(out[i].val)

----------------------------------------------------------------------------
(* C2 *)

\* C2 as stated: no yielded item carries the value "--", and the token that
\* follows a "--" is yielded as Arg by the pull that takes it.
C2_Original ==
    /\ \A i \in 1..Len(out) : out[i].val # DashDash
    /\ \A k \in 1..(Len(log) - 1) :
           log[k].tok = DashDash =>
               /\ Len(out) > log[k + 1].at
               /\ out[log[k + 1].at + 1] = Arg(log[k + 1].tok)

\* C2 amended: a "--" handed to handle_arg while scanning is active yields no
\* item of its own; the same pull takes the following token and yields it as
\* Arg, or returns None when there is none.
C2_Terminator ==
    \A k \in 1..Len(log) :
        (log[k].tok = DashDash /\ log[k].site = "arg" /\ log[k].scan) =>
            IF k < Len(log)
            THEN /\ log[k + 1].at = log[k].at
                 /\ log[k + 1].site = "arg"
                 /\ Len(out) > log[k].at
                 /\ out[log[k].at + 1] = Arg(log[k + 1].tok)
            ELSE /\ args = <<>>
                 /\ Len(out) = log[k].at
                 /\ ret = <<>>

\* "--" ended scanning and the hyphen token after it was yielded as Arg
C2_Witness ==
    \E k \in 1..(Len(log) - 1) :
        /\ log[k].tok = DashDash /\ log[k].site = "arg" /\ log[k].scan
        /\ IsClusterToken(log[k + 1].tok)
        /\ out[log[k].at + 1] = Arg(log[k + 1].tok)

----------------------------------------------------------------------------
(* C3 *)

\* C3: after a pull has yielded OptWithArg the cluster is still the current
\* one, positioned after the letter that took the value, and the value is the
\* token taken last; if letters remain, the next pull decodes the next letter
\* of the same cluster, and a value-taking letter takes the next token of args.
\* With "a:b:" the tokens -ab ant bat give a=ant, b=bat; with "a:b" they give
\* a=ant, flag b, operand bat.
C3_ClusterContinuesAfterValue ==
    /\ [](LastWas("OptWithArg") =>
            /\ idx >= 2 /\ idx <= Len(chars)
            /\ chars[idx] = ret[1].opt
            /\ log[Len(log)].site = "value"
            /\ log[Len(log)].tok = ret[1].val
            /\ \E k \in 1..(Len(log) - 1) :
                   /\ log[k].site = "arg" /\ log[k].tok = chars
                   /\ \A j \in (k + 1)..Len(log) : log[j].site = "value")
    /\ [][(LastWas("OptWithArg") /\ idx < Len(chars)) =>
            (/\ chars' = chars
             /\ idx' = idx + 1
             /\ ret' # <<>>
             /\ ret'[1].opt = chars[idx + 1]
             /\ IF TakesValue(chars[idx + 1]) /\ args # <<>>
                THEN ret' = <<OptWithArg(chars[idx + 1], Head(args))>> /\ args' = Tail(args)
                ELSE ret'[1].kind # "OptWithArg" /\ args' = args)]_vars
    /\ []((Ended /\ optstring = <<"a", Colon, "b", Colon>>
                 /\ Source = <<<<Hyphen, "a", "b">>, Ant, Bat>>)
            => out = <<OptWithArg("a", Ant), OptWithArg("b", Bat)>>)
    /\ []((Ended /\ optstring = <<"a", Colon, "b">>
                 /\ Source = <<<<Hyphen, "a", "b">>, Ant, Bat>>)
            => out = <<OptWithArg("a", Ant), Opt("b"), Arg(Bat)>>)

\* two letters of one cluster each took a value, in source order
C3_Witness ==
    /\ Len(out) >= 2 /\ Len(log) >= 3
    /\ out[1].kind = "OptWithArg" /\ out[2].kind = "OptWithArg"
    /\ log[1].site = "arg" /\ log[2].site = "value" /\ log[3].site = "value"
    /\ out[1].val = log[2].tok /\ out[2].val = log[3].tok
    /\ log[2].tok # log[3].tok

----------------------------------------------------------------------------
(* The letter the next pull resolves *)

\* the next pull hands a new cluster token to handle_option
StartsCluster == ~InCluster /\ ~opts_done /\ args # <<>> /\ IsClusterToken(Head(args))

\* the next pull resolves a letter of a cluster
Resolves == pc = "ready" /\ (InCluster \/ StartsCluster)

\* the cluster, the letter, the position after the letter, and the tokens left
\* in the source once the cluster token is taken
PendingCluster == IF InCluster THEN chars ELSE Head(args)
PendingLetter == IF InCluster THEN chars[idx + 1] ELSE Head(args)[2]
PendingIdx == IF InCluster THEN idx + 1 ELSE 2
PendingRest == IF InCluster THEN args ELSE Tail(args)

----------------------------------------------------------------------------
(* C4 *)

\* C4 as stated: once a pull has yielded OptWithArg the cluster is over, so
\* that the next pull starts from a fresh token.
C4_Original == LastWas("OptWithArg") => ~InCluster

\* C4 amended: a pull that resolves a declared value-taking letter while a
\* further token exists yields OptWithArg(letter, that token) and keeps the
\* cluster: the letters after it are decoded by the following pulls, and only
\* when none remains does the next pull hand a fresh token to handle_arg.
C4_ValueKeepsCluster ==
    /\ [][(Resolves /\ TakesValue(PendingLetter) /\ PendingRest # <<>>) =>
            (/\ ret' = <<OptWithArg(PendingLetter, Head(PendingRest))>>
             /\ args' = Tail(PendingRest)
             /\ chars' = PendingCluster
             /\ idx' = PendingIdx)]_vars
    /\ [][LastWas("OptWithArg") =>
            IF idx < Len(chars)
            THEN /\ chars' = chars
                 /\ \A k \in (Len(log) + 1)..Len(log') : log'[k].site = "value"
            ELSE args # <<>> =>
                 /\ Len(log') > Len(log)
                 /\ log'[Len(log) + 1].site = "arg"
                 /\ log'[Len(log) + 1].tok = Head(args)]_vars

\* a letter took its value, letters remained, and the next pull decoded one
C4_Witness ==
    /\ Len(out) >= 2 /\ Len(log) = 2
    /\ out[1].kind = "OptWithArg"
    /\ out[2].kind \in {"Opt", "UnknownOpt", "MissingArg"}
    /\ out[2].opt = log[1].tok[3]

----------------------------------------------------------------------------
(* C5 *)

\* the k-th token taken was handed to handle_arg while scanning was active and
\* is a cluster
ClusterEntry(k) == log[k].site = "arg" /\ log[k].scan /\ IsClusterToken(log[k].tok)

\* C5: for a cluster token -c1...cn taken while scanning is active whose
\* letters are all declared without a colon, the pull that takes it and the
\* n - 1 following ones yield Opt(c1), ..., Opt(cn) in that order, and no later
\* token is taken before the pull that follows Opt(cn).
C5_ClusterInOrder ==
    \A k \in 1..Len(log) :
        (ClusterEntry(k) /\ \A j \in 2..Len(log[k].tok) : IsFlag(log[k].tok[j])) =>
            /\ \A j \in 1..(Len(log[k].tok) - 1) :
                   Len(out) >= log[k].at + j => out[log[k].at + j] = Opt(log[k].tok[j + 1])
            /\ \A m \in (k + 1)..Len(log) : log[m].at >= log[k].at + Len(log[k].tok) - 1
            /\ (k = Len(log) /\ Len(out) < log[k].at + Len(log[k].tok) - 1) => InCluster

\* a cluster of two different flags was decoded and a later token was taken
C5_Witness ==
    \E k \in 1..(Len(log) - 1) :
        /\ ClusterEntry(k) /\ Len(log[k].tok) = 3
        /\ IsFlag(log[k].tok[2]) /\ IsFlag(log[k].tok[3])
        /\ log[k].tok[2] # log[k].tok[3]
        /\ out[log[k].at + 2] = Opt(log[k].tok[3])

----------------------------------------------------------------------------
(* C6 *)

\* C6: a pull that resolves a declared value-taking letter when the source has
\* no further token yields MissingArg(letter) and keeps the cluster; if letters
\* remain, the next pull decodes the next one.  With "a:b" the token -ab gives
\* MissingArg(a), Opt(b), None.
C6_MissingValue ==
    /\ [][(Resolves /\ TakesValue(PendingLetter) /\ PendingRest = <<>>) =>
            (/\ ret' = <<MissingArg(PendingLetter)>>
             /\ args' = <<>>
             /\ chars' = PendingCluster
             /\ idx' = PendingIdx)]_vars
    /\ [][(LastWas("MissingArg") /\ idx < Len(chars)) =>
            (/\ ret' # <<>>
             /\ ret'[1].opt = chars[idx + 1]
             /\ chars' = chars
             /\ idx' = idx + 1)]_vars
    /\ []((Ended /\ optstring = <<"a", Colon, "b">> /\ Source = <<<<Hyphen, "a", "b">>>>)
            => out = <<MissingArg("a"), Opt("b")>>)

\* a letter missed its value and the letter after it was decoded before the end
C6_Witness ==
    /\ Ended
    /\ Len(out) >= 2
    /\ out[Len(out) - 1].kind = "MissingArg"
    /\ out[Len(out)].kind = "Opt"
    /\ log[Len(log)].tok[Len(log[Len(log)].tok)] = out[Len(out)].opt

----------------------------------------------------------------------------
(* C7 *)

\* s has a colon with no letter anywhere before it, or a character that is
\* neither ASCII alphanumeric nor a colon
Malformed(s) ==
    \E i \in 1..Len(s) :
        \/ s[i] = Colon /\ \A j \in 1..(i - 1) : s[j] \notin AsciiAlphanumeric
        \/ s[i] # Colon /\ s[i] \notin AsciiAlphanumeric

\* C7: for a malformed optstring GetOpt::new never produces a parser: the call
\* ends in the panic, no table is kept, and the source is left whole with no
\* token taken and no item yielded.
C7_MalformedAborts ==
    /\ [](Malformed(optstring) =>
            /\ pc \in {"start", "panicked"}
            /\ opt_specs = <<>>
            /\ log = <<>> /\ out = <<>>
            /\ chars = <<>> /\ idx = 0)
    /\ [][(pc = "start" /\ Malformed(optstring)) => (pc' = "panicked" /\ args' = args)]_vars

\* construction panicked on a colon that follows no letter while the source held a token
C7_Witness ==
    /\ pc = "panicked"
    /\ optstring[1] = Colon
    /\ args # <<>>

----------------------------------------------------------------------------
(* C8 *)

\* s is made of distinct ASCII alphanumeric letters, each optionally followed
\* by one colon
WellFormed(s) ==
    /\ \A i \in 1..Len(s) : s[i] = Colon \/ s[i] \in AsciiAlphanumeric
    /\ \A i \in 1..Len(s) : s[i] = Colon => (i > 1 /\ s[i - 1] \in AsciiAlphanumeric)
    /\ \A i, j \in 1..Len(s) : (i # j /\ s[i] = s[j]) => s[i] = Colon

\* the characters looked up in the table
ProbeChars == SpecChars \cup ClusterChars \cup {"n", "t", "c", "0", "Z"}

\* C8: for a well-formed optstring construction succeeds, and find_opt_spec on
\* the table resolves c as value-taking exactly when c is followed by a colon
\* in optstring, as a flag exactly when c occurs not followed by a colon, and
\* as unknown exactly when c does not occur.
C8_TableResolvesLetters ==
    WellFormed(optstring) =>
        /\ pc # "panicked"
        /\ ~parse_optstring(optstring).panic
        /\ pc = "ready" =>
               \A c \in ProbeChars \ {Colon} :
                   LET r == find_opt_spec(opt_specs, c)
                   IN /\ (r # <<>> /\ r[1].has_arg) <=> TakesValue(c)
                      /\ (r # <<>> /\ ~r[1].has_arg) <=> IsFlag(c)
                      /\ (r = <<>>) <=> IsUnknown(c)

\* a parser was built from an optstring with a value-taking letter before a flag
C8_Witness ==
    /\ pc = "ready"
    /\ WellFormed(optstring)
    /\ Len(optstring) = 3
    /\ TakesValue(optstring[1]) /\ IsFlag(optstring[3])
    /\ Len(opt_specs) = 3

----------------------------------------------------------------------------
(* C9 *)

\* C9: when optstring has no colon, no item is OptWithArg or MissingArg, every
\* item for a letter that occurs in optstring is Opt of that letter, and no
\* token is taken by handle_option as a value.
C9_NoColonNoValue ==
    (\A i \in 1..Len(optstring) : optstring[i] # Colon) =>
        /\ \A i \in 1..Len(out) :
               /\ out[i].kind \notin {"OptWithArg", "MissingArg"}
               /\ (out[i].opt # "" /\ ~IsUnknown(out[i].opt)) => out[i] = Opt(out[i].opt)
               /\ (out[i].opt # "" /\ IsUnknown(out[i].opt)) => out[i] = UnknownOpt(out[i].opt)
        /\ \A k \in 1..Len(log) : log[k].site = "arg"

\* with a colon-free optstring of two letters a cluster of both was decoded
\* and the token after it was taken
C9_Witness ==
    /\ pc = "ready"
    /\ Len(optstring) = 2
    /\ \A i \in 1..Len(optstring) : optstring[i] # Colon
    /\ Len(out) >= 3 /\ Len(log) >= 2
    /\ out[1] = Opt(optstring[2]) /\ out[2] = Opt(optstring[1])

----------------------------------------------------------------------------
(* C10 *)

\* the number of option characters of the clusters among the first k tokens taken
RECURSIVE OptionChars(_)
OptionChars(k) ==
    IF k = 0 THEN 0
    ELSE OptionChars(k - 1) + (IF ClusterEntry(k) THEN Len(log[k].tok) - 1 ELSE 0)

\* the index in out of the first Arg item (0 if there is none)
FirstArg ==
    LET I == {i \in 1..Len(out) : out[i].kind = "Arg"}
    IN IF I = {} THEN 0 ELSE CHOOSE i \in I : \A j \in I : i <= j

\* the number of tokens taken by the pulls before the one that yielded out[p]
TakenBefore(p) == Cardinality({k \in 1..Len(log) : log[k].at < p - 1})

\* C10 as stated: the number of items before the first Arg equals the number
\* of option characters of the clusters taken before it.
C10_Original ==
    FirstArg > 0 => FirstArg - 1 = OptionChars(TakenBefore(FirstArg))

\* C10 amended: the number of items other than MissingOpt before the first Arg
\* equals the number of option characters of the clusters taken before it.
C10_ItemsPerOptionChar ==
    FirstArg > 0 =>
        Cardinality({i \in 1..(FirstArg - 1) : out[i].kind # "MissingOpt"})
            = OptionChars(TakenBefore(FirstArg))

\* an operand was yielded after the items of a cluster and a single hyphen
C10_Witness ==
    /\ FirstArg >= 3
    /\ \E i \in 1..(FirstArg - 1) : out[i].kind \in {"Opt", "OptWithArg", "UnknownOpt"}
    /\ \E i \in 1..(FirstArg - 1) : out[i].kind = "MissingOpt"

----------------------------------------------------------------------------
(* C11 *)

\* C11: a pull returns None only when it leaves the source exhausted with no
\* cluster in progress, having found the source empty or holding only a final
\* "--" with scanning active; a pull made while letters of the cluster remain,
\* or while the source holds anything but a single final "--", yields an item.
C11_NoneOnlyWhenExhausted ==
    /\ [][(pc = "ready" /\ ret' = <<>>) =>
            (/\ ~InCluster
             /\ args = <<>> \/ (args = <<DashDash>> /\ ~opts_done)
             /\ args' = <<>>
             /\ ~InCluster'
             /\ out' = out)]_vars
    /\ [][(pc = "ready" /\ (InCluster \/ (args # <<>> /\ args # <<DashDash>>))) =>
            (/\ ret' # <<>>
             /\ out' = Append(out, ret'[1]))]_vars

\* a pull returned None on the empty source after the last letter of a cluster
C11_Witness ==
    /\ Ended
    /\ Len(out) >= 2
    /\ out[Len(out)].kind \in {"Opt", "UnknownOpt"}
    /\ log[Len(log)].tok = chars
    /\ idx = Len(chars) /\ idx >= 3

----------------------------------------------------------------------------
(* C12 *)

\* C12: a pull that resolves a letter that optstring does not declare yields
\* UnknownOpt(letter) and leaves the parser as a flag would: the cluster kept,
\* the index after the letter, no token taken, scanning as it was; if letters
\* remain, the next pull decodes the next one.
C12_UnknownKeepsCluster ==
    /\ [][(Resolves /\ IsUnknown(PendingLetter)) =>
            (/\ ret' = <<UnknownOpt(PendingLetter)>>
             /\ chars' = PendingCluster
             /\ idx' = PendingIdx
             /\ args' = PendingRest
             /\ opts_done' = opts_done)]_vars
    /\ [][(LastWas("UnknownOpt") /\ idx < Len(chars)) =>
            (/\ ret' # <<>>
             /\ ret'[1].opt = chars[idx + 1]
             /\ ret'[1].kind \in {"Opt", "OptWithArg", "MissingArg", "UnknownOpt"}
             /\ chars' = chars
             /\ idx' = idx + 1)]_vars

\* an undeclared letter was followed in its cluster by a declared flag, which
\* the next pull yielded
C12_Witness ==
    /\ Len(out) >= 2
    /\ out[Len(out) - 1].kind = "UnknownOpt"
    /\ out[Len(out)].kind = "Opt"
    /\ InCluster
    /\ chars[idx] = out[Len(out)].opt
    /\ chars[idx - 1] = out[Len(out) - 1].opt

----------------------------------------------------------------------------
(* C14 *)

\* the value of the digit string d read in the given radix
RECURSIVE Power(_, _)
Power(b, e) == IF e = 0 THEN 1 ELSE b * Power(b, e - 1)

DigitValue(c) == CHOOSE i \in 0..9 : Digits[i + 1] = c

RECURSIVE ValueFrom(_, _, _)
ValueFrom(d, i, radix) ==
    IF i > Len(d) THEN 0
    ELSE DigitValue(d[i]) * Power(radix, Len(d) - i) + ValueFrom(d, i + 1, radix)

Value(d, radix) == ValueFrom(d, 1, radix)

\* d is a non-empty string of digits below the given radix
IsDigitString(d, radix) ==
    Len(d) > 0 /\ \A i \in 1..Len(d) : \E v \in 0..(radix - 1) : Digits[v + 1] = d[i]

\* offstr is d followed by the suffix suf
HasSuffix(suf) ==
    /\ Len(offstr) >= Len(suf)
    /\ SubSeq(offstr, Len(offstr) - Len(suf) + 1, Len(offstr)) = suf

Stem(suf) == SubSeq(offstr, 1, Len(offstr) - Len(suf))

\* what C14 expects of parse_offset on d followed by suf, d a string of digits
\* below digitsBelow
Expect(suf, digitsBelow, radix, mult) ==
    (HasSuffix(suf) /\ IsDigitString(Stem(suf), digitsBelow)) =>
        offset = <<OkOffset(Value(Stem(suf), radix) * mult)>>

\* C14 as stated: for every string d of decimal digits, d gives its octal
\* value, d. its decimal value, db its octal value times 512 and d.b its
\* decimal value times 512.
C14_Original ==
    offset # <<>> =>
        /\ Expect(<<>>, 10, 8, 1)
        /\ Expect(<<".">>, 10, 10, 1)
        /\ Expect(<<"b">>, 10, 8, 512)
        /\ Expect(<<".", "b">>, 10, 10, 512)

\* C14 amended: for a string d of octal digits, d gives its octal value and db
\* its octal value times 512; for a string d of decimal digits, d. gives its
\* decimal value and d.b its decimal value times 512.
C14_OffsetValue ==
    offset # <<>> =>
        /\ Expect(<<>>, 8, 8, 1)
        /\ Expect(<<".">>, 10, 10, 1)
        /\ Expect(<<"b">>, 8, 8, 512)
        /\ Expect(<<".", "b">>, 10, 10, 512)

\* parse_offset("18.b") returned 18 * 512
C14_Witness ==
    /\ offstr = <<"1", "8", ".", "b">>
    /\ offset = <<OkOffset(9216)>>

----------------------------------------------------------------------------
(* C15 *)

\* a "--" was handed to handle_arg while scanning was active
TerminatorTaken ==
    \E k \in 1..Len(log) : log[k].tok = DashDash /\ log[k].site = "arg" /\ log[k].scan

\* C15: a pull that takes "--" as the next token to classify while scanning is
\* active switches scanning off, yields nothing for it and goes on to the token
\* after it, which it yields as Arg, or returns None if there is none; from
\* then on scanning stays off and every pull yields the next token as Arg.
C15_TerminatorEndsScanning ==
    /\ [][(pc = "ready" /\ ~InCluster /\ ~opts_done /\ args # <<>> /\ Head(args) = DashDash) =>
            (/\ opts_done'
             /\ IF Len(args) >= 2
                THEN /\ ret' = <<Arg(args[2])>>
                     /\ out' = Append(out, Arg(args[2]))
                     /\ args' = Tail(Tail(args))
                ELSE /\ ret' = <<>>
                     /\ out' = out
                     /\ args' = <<>>)]_vars
    /\ [](TerminatorTaken => opts_done)
    /\ [][(TerminatorTaken /\ args # <<>>) =>
            (/\ ret' = <<Arg(Head(args))>>
             /\ out' = Append(out, Arg(Head(args)))
             /\ args' = Tail(args))]_vars

\* "--" came first and the two tokens after it, the first a cluster token,
\* were yielded as Arg by two pulls
C15_Witness ==
    /\ Len(log) = 3 /\ Len(out) = 2
    /\ log[1].tok = DashDash /\ log[1].scan
    /\ IsClusterToken(log[2].tok)
    /\ out[1] = Arg(log[2].tok) /\ out[2] = Arg(log[3].tok)
    /\ log[3].at = 1

----------------------------------------------------------------------------
(* C16 *)

\* C16: GetOpt::new builds the parser with scanning active (opts_done false),
\* and no step sets opts_done back to false once it is true.
C16_ScanningMonotone ==
    /\ [][(pc = "start" /\ pc' = "ready") => ~opts_done']_vars
    /\ [][opts_done => opts_done']_vars

\* scanning was active for a first pull, then switched off, and two more pulls
\* were made
C16_Witness ==
    /\ opts_done
    /\ Len(out) >= 3
    /\ out[1].kind # "Arg"
    /\ out[Len(out) - 1].kind = "Arg" /\ out[Len(out)].kind = "Arg"

----------------------------------------------------------------------------
(* C17 *)

\* C17: a pull that resolves a declared value-taking letter while a further
\* token exists yields that whole token as the value, whatever it is, and does
\* not classify it: the cursor stays on the cluster and opts_done stays as it
\* was; every token taken by handle_option is the value of the OptWithArg that
\* the same pull yielded.
C17_ValueVerbatim ==
    /\ [][(Resolves /\ TakesValue(PendingLetter) /\ PendingRest # <<>>) =>
            (/\ ret' = <<OptWithArg(PendingLetter, Head(PendingRest))>>
             /\ out' = Append(out, ret'[1])
             /\ opts_done' = opts_done
             /\ chars' = PendingCluster
             /\ args' = Tail(PendingRest)
             /\ log'[Len(log')] = [tok |-> Head(PendingRest), site |-> "value",
                                   scan |-> TRUE, at |-> Len(out)])]_vars
    /\ [](\A k \in 1..Len(log) :
            log[k].site = "value" =>
                /\ Len(out) > log[k].at
                /\ out[log[k].at + 1].kind = "OptWithArg"
                /\ out[log[k].at + 1].val = log[k].tok)

\* "--" was taken as the value of an option and scanning is still active
C17_Witness ==
    /\ LastWas("OptWithArg")
    /\ ret[1].val = DashDash
    /\ ~opts_done
    /\ args # <<>>

\* a single hyphen was taken as a value and the cluster after it was decoded
C17_WitnessHyphen ==
    /\ Len(out) >= 2
    /\ out[1].kind = "OptWithArg" /\ out[1].val = <<Hyphen>>
    /\ out[2].kind \in {"Opt", "MissingArg", "UnknownOpt", "OptWithArg"}
    /\ Len(log) >= 3 /\ log[3].site = "arg"

----------------------------------------------------------------------------
(* C18 *)

\* C18: a pull that takes a single hyphen as the next token to classify while
\* scanning is active yields MissingOpt as its one item and leaves scanning
\* active with no cluster in progress; a cluster token that follows is decoded
\* as a cluster by the next pull.
C18_DanglingHyphen ==
    /\ [][(pc = "ready" /\ ~InCluster /\ ~opts_done /\ args # <<>> /\ Head(args) = <<Hyphen>>) =>
            (/\ ret' = <<MissingOpt>>
             /\ out' = Append(out, MissingOpt)
             /\ args' = Tail(args)
             /\ ~opts_done'
             /\ ~InCluster')]_vars
    /\ [][(LastWas("MissingOpt") /\ args # <<>> /\ IsClusterToken(Head(args))) =>
            (/\ ret' # <<>>
             /\ ret'[1].kind \in {"Opt", "OptWithArg", "MissingArg", "UnknownOpt"}
             /\ ret'[1].opt = Head(args)[2]
             /\ chars' = Head(args)
             /\ idx' = 2)]_vars

\* a single hyphen gave MissingOpt and the declared flag of the token after it
\* was yielded as Opt
C18_Witness ==
    /\ Len(out) = 2 /\ Len(log) = 2
    /\ log[1].tok = <<Hyphen>>
    /\ IsClusterToken(log[2].tok)
    /\ out[1] = MissingOpt
    /\ out[2] = Opt(log[2].tok[2])
    /\ ~opts_done

----------------------------------------------------------------------------
(* C19 *)

\* one descriptor per letter of s, in order of appearance, taking a value
\* exactly when a colon follows the letter
RECURSIVE DescriptorsFrom(_, _)
DescriptorsFrom(s, i) ==
    IF i > Len(s) THEN <<>>
    ELSE IF s[i] = Colon THEN DescriptorsFrom(s, i + 1)
    ELSE <<OptSpec(s[i], i < Len(s) /\ s[i + 1] = Colon)>> \o DescriptorsFrom(s, i + 1)

Descriptors(s) == DescriptorsFrom(s, 1)

\* C19: the table built from a well-formed optstring holds exactly one
\* descriptor per letter of the string, in order of appearance, with has_arg
\* true exactly for the letters followed by a colon.
C19_OneDescriptorPerLetter ==
    (pc = "ready" /\ WellFormed(optstring)) => opt_specs = Descriptors(optstring)

----------------------------------------------------------------------------
(* C20 *)

\* C20 as stated: after a pull that took a token from the source the cursor is
\* not part-way through a token other than the one just taken.
C20_Original ==
    [][Len(log') > Len(log) => (~InCluster' \/ chars' = log'[Len(log')].tok)]_vars

\* C20: the cursor is set to a token only when the token is handed to
\* handle_arg while scanning is active and starts with a hyphen; a token yielded
\* as Arg leaves chars and idx as they were, with no cluster in progress; a
\* token taken as the value of an option leaves the cursor on the cluster being
\* decoded, just past the letter of the option. So the cursor is part-way
\* through a token only when that token was entered as a cluster and every
\* token taken since was a value.
C20_CursorFollowsCluster ==
    /\ [][(pc = "ready" /\ ~InCluster /\ ~opts_done /\ args # <<>>
           /\ starts_with(Head(args), Hyphen)) =>
            (/\ chars' = Head(args)
             /\ idx' = IF Head(args) = DashDash THEN 0
                       ELSE IF Len(Head(args)) = 1 THEN 1 ELSE 2)]_vars
    /\ [][(pc = "ready" /\ ~InCluster /\ args # <<>>
           /\ (opts_done \/ ~starts_with(Head(args), Hyphen))) =>
            (/\ ret' = <<Arg(Head(args))>>
             /\ chars' = chars /\ idx' = idx
             /\ ~InCluster')]_vars
    /\ [][(pc = "ready" /\ InCluster /\ TakesValue(PendingLetter) /\ args # <<>>) =>
            (/\ Len(log') = Len(log) + 1
             /\ log'[Len(log')].site = "value"
             /\ chars' = chars
             /\ idx' = idx + 1)]_vars
    /\ [](InCluster =>
            \E k \in 1..Len(log) :
                /\ ClusterEntry(k)
                /\ log[k].tok = chars
                /\ \A j \in (k + 1)..Len(log) : log[j].site = "value")
    /\ [](opts_done => ~InCluster)

\* the second letter of a cluster took the next token as its value and the
\* cursor is still part-way through the cluster, not on the token just taken
C20_Witness ==
    /\ Len(log) = 2 /\ Len(out) = 2
    /\ log[2].site = "value" /\ log[2].at = 1
    /\ InCluster
    /\ chars = log[1].tok /\ chars # log[2].tok
    /\ idx = 3

----------------------------------------------------------------------------
(* C21 *)

\* the number of characters of the tokens ts, and the number of empty tokens
RECURSIVE TotalChars(_)
TotalChars(ts) == IF ts = <<>> THEN 0 ELSE Len(Head(ts)) + TotalChars(Tail(ts))

EmptyTokens(ts) == Cardinality({k \in 1..Len(ts) : ts[k] = <<>>})

\* what is left to decode: the letters left in the cluster and the characters
\* of the tokens left, an empty token counting for one
RECURSIVE Weight(_)
Weight(ts) ==
    IF ts = <<>> THEN 0
    ELSE (IF Head(ts) = <<>> THEN 1 ELSE Len(Head(ts))) + Weight(Tail(ts))

Remaining == (IF InCluster THEN Len(chars) - idx ELSE 0) + Weight(args)

\* C21 as stated: the number of items yielded never exceeds the number of
\* characters of the command line.
C21_Original == Len(out) <= TotalChars(Source)

\* C21: the pulls of a parser built from a valid optstring eventually return
\* None on the exhausted source; every pull made while something is left takes
\* a letter or a token that no later pull sees again; and the number of items
\* yielded never exceeds the number of characters of the command line plus the
\* number of its empty tokens.
C21_FiniteSinglePass ==
    /\ (pc = "ready") ~> Ended
    /\ [][(pc = "ready" /\ Remaining > 0) => Remaining' < Remaining]_vars
    /\ [][(pc = "ready" /\ Remaining = 0) => (ret' = <<>> /\ out' = out)]_vars
    /\ [](Len(out) <= TotalChars(Source) + EmptyTokens(Source))

\* the command line was decoded to its end: an empty token among its tokens
\* was yielded as Arg, and there are as many items as characters
C21_Witness ==
    /\ Ended
    /\ Len(log) >= 2
    /\ \E i \in 1..Len(out) : out[i] = Arg(<<>>)
    /\ Len(out) = TotalChars(Source)

----------------------------------------------------------------------------
(* C22 *)

\* C22: a pull takes the first n tokens of the source, in order and once each
\* (the tokens taken so far followed by those left are always the command
\* line), with n at most 2; n is 2 only for a cluster token whose first letter
\* takes the next token as its value, or for a "--" met while scanning followed
\* by a token; n is 0 for a pull that continues a cluster on a letter that is
\* unknown or takes no value; n is 1 for a pull made with scanning over on a
\* source that has a token.
C22_TokensInOrder ==
    [][pc = "ready" =>
        LET n == Len(args) - Len(args')
        IN /\ n \in 0..2
           /\ args' = SubSeq(args, n + 1, Len(args))
           /\ Len(log') = Len(log) + n
           /\ Source' = Source
           /\ n = 2 => \/ StartsCluster /\ TakesValue(Head(args)[2])
                       \/ ~InCluster /\ ~opts_done /\ Head(args) = DashDash
           /\ (InCluster /\ ~TakesValue(PendingLetter)) => n = 0
           /\ (opts_done /\ args # <<>>) => n = 1]_vars

\* a first pull took a cluster token and a value, a second one an operand, and
\* a third one, made with scanning over, the one token after it
C22_Witness ==
    /\ Len(log) = 4 /\ Len(out) = 3
    /\ log[1].at = 0 /\ log[2].at = 0 /\ log[2].site = "value"
    /\ log[3].at = 1 /\ log[3].scan
    /\ log[4].at = 2 /\ ~log[4].scan
    /\ args = <<>>

----------------------------------------------------------------------------
(* C23 *)

OptionKinds == {"Opt", "OptWithArg", "MissingArg", "UnknownOpt"}

\* C23: idx never exceeds the length of chars, and the index at which
\* handle_option read the letter of the item it returned (idx before its
\* increment) is at least 1 and less than the length of chars, the letter read
\* being the character of the cluster at that index.
C23_IndexInBounds ==
    /\ [](idx >= 0 /\ idx <= Len(chars))
    /\ [][(pc = "ready" /\ ret' # <<>> /\ ret'[1].kind \in OptionKinds) =>
            (/\ idx' - 1 >= 1
             /\ idx' - 1 < Len(chars')
             /\ chars'[idx'] = ret'[1].opt
             /\ (InCluster => idx' - 1 = idx /\ chars' = chars))]_vars

\* the last letter of a cluster of three letters was read, at index 3 of 4
C23_Witness ==
    /\ pc = "ready"
    /\ Len(chars) = 4 /\ idx = Len(chars)
    /\ ret # <<>> /\ ret[1].kind \in OptionKinds
    /\ ret[1].opt = chars[4]
    /\ Len(out) = 3

----------------------------------------------------------------------------
(* C24 *)

\* the token starts with two hyphens and is longer than that
IsLongToken(t) == Len(t) > 2 /\ t[1] = Hyphen /\ t[2] = Hyphen

\* C24: the table never declares a hyphen; a pull that takes a token starting
\* with "--" and longer than two characters for classification while scanning
\* is active yields UnknownOpt('-') for its second hyphen, enters the token as
\* a cluster and leaves scanning active; while that cluster is in progress each
\* pull decodes its next character as a letter.
C24_LongTokenIsCluster ==
    /\ [](\A i \in 1..Len(opt_specs) : opt_specs[i].opt # Hyphen)
    /\ [][(pc = "ready" /\ ~InCluster /\ ~opts_done /\ args # <<>> /\ IsLongToken(Head(args))) =>
            (/\ ret' = <<UnknownOpt(Hyphen)>>
             /\ out' = Append(out, UnknownOpt(Hyphen))
             /\ ~opts_done'
             /\ chars' = Head(args) /\ idx' = 2
             /\ InCluster'
             /\ args' = Tail(args))]_vars
    /\ [][(pc = "ready" /\ InCluster /\ IsLongToken(chars)) =>
            (/\ ret' # <<>>
             /\ ret'[1].kind \in {"Opt", "OptWithArg", "MissingArg", "UnknownOpt"}
             /\ ret'[1].opt = chars[idx + 1]
             /\ chars' = chars /\ idx' = idx + 1
             /\ ~opts_done')]_vars

\* the token "--a" gave UnknownOpt('-') and then Opt(a), scanning still active
C24_Witness ==
    /\ Len(log) = 1 /\ IsLongToken(log[1].tok) /\ Len(log[1].tok) = 3
    /\ out = <<UnknownOpt(Hyphen), Opt(log[1].tok[3])>>
    /\ ~opts_done
    /\ args # <<>>

----------------------------------------------------------------------------
(* C25 *)

\* C25: once a pull has returned None on the exhausted source, a further pull
\* returns None again, yields nothing, takes nothing and leaves opts_done,
\* chars and idx as they were.
C25_EndAbsorbing ==
    /\ [][Ended =>
            (/\ ret' = <<>>
             /\ out' = out
             /\ args' = <<>>
             /\ log' = log
             /\ opts_done' = opts_done
             /\ chars' = chars /\ idx' = idx)]_vars
    /\ [][Ended => Ended']_vars

\* a pull took a final "--" with scanning active and returned None after
\* earlier pulls had yielded items: the parser has ended with scanning off
C25_Witness ==
    /\ Ended
    /\ opts_done
    /\ chars = DashDash /\ idx = 0
    /\ out # <<>>
    /\ log[Len(log)].tok = DashDash /\ log[Len(log)].at = Len(out)

----------------------------------------------------------------------------
(* C26 *)

\* the bytes of the buffers bufs, in order
RECURSIVE Flatten(_)
Flatten(bufs) == IF bufs = <<>> THEN <<>> ELSE Head(bufs) \o Flatten(Tail(bufs))

IsSpace(c) == c \in {CR, HT, LF, SP, VT}

\* the number of maximal runs of non-whitespace bytes in bs
Runs(bs) ==
    Cardinality({i \in 1..Len(bs) : ~IsSpace(bs[i]) /\ (i = 1 \/ IsSpace(bs[i - 1]))})

\* C26: after any sequence of write calls, chars is the number of bytes
\* written, lines the number of line feeds among them and words the number of
\* maximal runs of bytes other than CR, HT, LF, SP and VT in their
\* concatenation, however the bytes were split into calls.
C26_CountsIgnoreChunking ==
    LET bs == Flatten(written)
    IN /\ counts.chars = Len(bs)
       /\ counts.lines = Cardinality({i \in 1..Len(bs) : bs[i] = LF})
       /\ counts.words = Runs(bs)

\* the whole input was written in three calls and holds two words, the first
\* split between the first two calls, on one line
C26_Witness ==
    /\ pc = "wc" /\ reader = <<>>
    /\ Len(written) = 3
    /\ ~IsSpace(written[1][Len(written[1])]) /\ ~IsSpace(written[2][1])
    /\ counts.words = 2 /\ counts.lines = 1 /\ counts.chars = 4

====
